---- MODULE Spec2Model ----
(***************************************************************************)
(* The IVF container codec of ivf-rs: the nom-based demuxer                *)
(* (src/src/demuxer.rs) and the muxer (src/src/muxer.rs), modelled at the  *)
(* level of bytes.                                                         *)
(*                                                                         *)
(* Numbers.  A byte is 0..255.  16- and 32-bit fields are integers; a      *)
(* 64-bit field is the pair <<low 32 bits, high 32 bits>>.  TLC's integers *)
(* end at 2^31 - 1, so every 32-bit quantity that is decoded here has its  *)
(* top bit clear; the inputs below are chosen that way.  usize is taken to *)
(* be 64 bits wide, so `as usize` and `as u64` on a u32 or u64 value       *)
(* change nothing.                                                         *)
(***************************************************************************)
EXTENDS Integers, Naturals, Sequences, FiniteSets, TLC

\* Option<T>: None, or Some(x).
None == <<>>

Some(x) == <<x>>

\* Option::unwrap_or_default
unwrap_or_default(o, default) == IF o = None THEN default ELSE o[1]

Min(a, b) == IF a <= b THEN a ELSE b

Drop(s, n) == SubSeq(s, n + 1, Len(s))

Take(s, n) == SubSeq(s, 1, n)

(***************************************************************************)
(* av_bitstream little-endian readers and writers.                         *)
(***************************************************************************)
RECURSIVE put_le(_, _)
put_le(v, n) ==
    IF n = 0 THEN <<>> ELSE <<v % 256>> \o put_le(v \div 256, n - 1)

put_u16l(v) == put_le(v, 2)

put_u32l(v) == put_le(v, 4)

put_u64l(v) == put_le(v[1], 4) \o put_le(v[2], 4)

RECURSIVE get_le(_)
get_le(b) == IF b = <<>> THEN 0 ELSE Head(b) + 256 * get_le(Tail(b))

get_u16l(b) == get_le(b)

get_u32l(b) == get_le(b)

get_u64l(b) == <<get_le(Take(b, 4)), get_le(Drop(b, 4))>>

(***************************************************************************)
(* FourCC tags and the magic, as ASCII.                                    *)
(***************************************************************************)
DKIF == <<68, 75, 73, 70>>

VP80 == <<86, 80, 56, 48>>

VP90 == <<86, 80, 57, 48>>

AV01 == <<65, 86, 48, 49>>

(***************************************************************************)
(* nom: the result of a parser.  A panic (a slice index out of range)      *)
(* unwinds through every combinator and is kept as an outcome of its own.  *)
(* Incomplete(0) is Needed::Unknown, as Needed::new(0) makes it.           *)
(***************************************************************************)
Ok(rest, val) == [kind |-> "Ok", rest |-> rest, val |-> val]

Incomplete(n) == [kind |-> "Incomplete", needed |-> n]

ErrorTag == [kind |-> "Error", code |-> "Tag"]

Panic == [kind |-> "Panic"]

\* nom::bytes::streaming::tag: compares the common prefix first, and only
\* then asks whether the input is long enough.
tag(t, input) ==
    IF \E i \in 1..Min(Len(t), Len(input)) : input[i] # t[i]
    THEN ErrorTag
    ELSE IF Len(input) >= Len(t)
         THEN Ok(Drop(input, Len(t)), Take(input, Len(t)))
         ELSE Incomplete(Len(t) - Len(input))

\* nom::bytes::streaming::take
take(count, input) ==
    IF Len(input) >= count
    THEN Ok(Drop(input, count), Take(input, count))
    ELSE Incomplete(count - Len(input))

parse_u16(input) ==
    IF Len(input) < 2 THEN Panic
    ELSE Ok(Drop(input, 2), get_u16l(Take(input, 2)))

parse_u32(input) ==
    IF Len(input) < 4 THEN Panic
    ELSE Ok(Drop(input, 4), get_u32l(Take(input, 4)))

parse_u64(input) ==
    IF Len(input) < 8 THEN Panic
    ELSE Ok(Drop(input, 8), get_u64l(Take(input, 8)))

\* parse_codec with an unknown tag taken for the default codec
parse_codec_coerce(input) ==
    IF Len(input) < 4 THEN Panic
    ELSE LET t == Take(input, 4) IN
         IF t = VP90 THEN Ok(Drop(input, 4), "VP9")
         ELSE IF t = AV01 THEN Ok(Drop(input, 4), "AV1")
         ELSE Ok(Drop(input, 4), "VP8")

parse_codec(input) ==
    IF Len(input) < 4 THEN Panic
    ELSE LET t == Take(input, 4) IN
         IF t = VP80 THEN Ok(Drop(input, 4), "VP8")
         ELSE IF t = VP90 THEN Ok(Drop(input, 4), "VP9")
         ELSE IF t = AV01 THEN Ok(Drop(input, 4), "AV1")
         ELSE ErrorTag

\* The parsers that ivf_header and ivf_frame hand to nom's tuple.
Apply(p, input) ==
    CASE p = "tag_DKIF"    -> tag(DKIF, input)
      [] p = "parse_u16"   -> parse_u16(input)
      [] p = "parse_u32"   -> parse_u32(input)
      [] p = "parse_u64"   -> parse_u64(input)
      [] p = "parse_codec" -> parse_codec(input)
      [] p = "take_4"      -> take(4, input)

\* nom::sequence::tuple: runs the parsers in order on what the previous one
\* left, and stops at the first that does not succeed.
RECURSIVE tuple(_, _, _)
tuple(ps, input, acc) ==
    IF ps = <<>> THEN Ok(input, acc)
    ELSE LET r == Apply(Head(ps), input) IN
         IF r.kind # "Ok" THEN r
         ELSE tuple(Tail(ps), r.rest, Append(acc, r.val))

ivf_header(input) ==
    LET r == tuple(<<"tag_DKIF", "parse_u16", "parse_u16", "parse_codec",
                     "parse_u16", "parse_u16", "parse_u32", "parse_u32",
                     "parse_u32", "take_4">>, input, <<>>)
    IN  IF r.kind # "Ok" THEN r
        ELSE Ok(r.rest, [version |-> r.val[2],
                         width   |-> r.val[5],
                         height  |-> r.val[6],
                         rate    |-> r.val[7],
                         scale   |-> r.val[8],
                         codec   |-> r.val[4],
                         nframe  |-> r.val[9]])

\* ivf_frame taking the payload with an inclusive bound, one byte too many
ivf_frame_inclusive(input) ==
    LET r == tuple(<<"parse_u32", "parse_u64">>, input, <<>>)
    IN  IF r.kind # "Ok" THEN r
        ELSE LET size == r.val[1]
                 pos  == r.val[2]
                 d    == take(size + 1, r.rest)
             IN  IF d.kind # "Ok" THEN d
                 ELSE Ok(d.rest, [size |-> size, pos |-> pos, data |-> d.val])

ivf_frame(input) ==
    LET r == tuple(<<"parse_u32", "parse_u64">>, input, <<>>)
    IN  IF r.kind # "Ok" THEN r
        ELSE LET size == r.val[1]
                 pos  == r.val[2]
                 d    == take(size, r.rest)
             IN  IF d.kind # "Ok" THEN d
                 ELSE Ok(d.rest, [size |-> size, pos |-> pos, data |-> d.val])

(***************************************************************************)
(* common.rs: the codec enumeration and its codec id string.               *)
(***************************************************************************)
Codec == {"VP8", "VP9", "AV1"}

CodecDefault == "VP8"

CodecString(codec) ==
    CASE codec = "VP8" -> "vp8"
      [] codec = "VP9" -> "vp9"
      [] codec = "AV1" -> "av1"

(***************************************************************************)
(* The demuxer.                                                            *)
(***************************************************************************)
\* GlobalInfo as av_format::demuxer::Context creates it.
EmptyInfo == [duration |-> None, timebase |-> None, streams |-> <<>>]

\* The Stream that read_headers builds from a parsed header.
HeaderStream(h) ==
    [id          |-> 0,
     index       |-> 0,
     params      |-> [extradata          |-> None,
                      bit_rate           |-> h.rate,
                      delay              |-> 0,
                      convergence_window |-> 0,
                      codec_id           |-> Some(CodecString(h.codec)),
                      kind               |-> Some([video  |-> TRUE,
                                                   width  |-> h.width,
                                                   height |-> h.height,
                                                   format |-> None])],
     start        |-> None,
     duration     |-> Some(h.nframe),
     timebase     |-> <<1, 1000000000>>,
     user_private |-> None]

\* GlobalInfo::add_stream: the stream takes the next index and is pushed.
add_stream(gi, st) ==
    [gi EXCEPT !.streams = Append(@, [st EXCEPT !.index = Len(gi.streams)])]

InvalidData == [kind |-> "Err", error |-> "InvalidData"]

MoreDataNeeded(sz) == [kind |-> "Err", error |-> "MoreDataNeeded", size |-> sz]

Crashed == [kind |-> "Panic"]

\* IvfDemuxer::read_headers on the window `data`: the value returned, and
\* the demuxer's header and the driver's GlobalInfo after the call.
read_headers(data, hdr, gi) ==
    LET r == ivf_header(data) IN
    CASE r.kind = "Ok" ->
            [out    |-> [kind |-> "Ok", seek |-> Len(data) - Len(r.rest)],
             header |-> Some(r.val),
             info   |-> add_stream(gi, HeaderStream(r.val))]
      [] r.kind = "Panic" ->
            [out |-> Crashed, header |-> hdr, info |-> gi]
      [] OTHER ->
            [out |-> InvalidData, header |-> hdr, info |-> gi]

\* av_data::packet::Packet
Packet(data, pos) ==
    [data         |-> data,
     pos          |-> pos,
     stream_index |-> 0,
     is_key       |-> FALSE,
     is_corrupted |-> FALSE]

\* Des::probe: the score of the first 33 bytes; the slice data[..=32] of
\* a shorter input is out of range.
probe(data) ==
    IF Len(data) < 33 THEN Crashed
    ELSE LET r == ivf_header(Take(data, 33))
         IN  CASE r.kind = "Ok"    -> [kind |-> "Ok", score |-> 32]
               [] r.kind = "Panic" -> Crashed
               [] OTHER            -> [kind |-> "Ok", score |-> 0]

\* The Packet that read_event builds from a parsed frame.
FramePacket(f) == Packet(f.data, Some(f.pos))

EventEof == [type |-> "Eof"]

NewPacket(pkt) == [type |-> "NewPacket", pkt |-> pkt]

\* read_event asking for the shortfall alone, the window length left out
read_event_shortfall(data, q) ==
    IF q # <<>>
    THEN [out |-> [kind |-> "Ok", seek |-> 0, event |-> Head(q)],
          queue |-> Tail(q)]
    ELSE IF data = <<>>
    THEN [out |-> [kind |-> "Ok", seek |-> 0, event |-> EventEof],
          queue |-> q]
    ELSE LET r == ivf_frame(data) IN
         CASE r.kind = "Ok" ->
                 [out   |-> [kind  |-> "Ok",
                             seek  |-> Len(data) - Len(r.rest),
                             event |-> NewPacket(FramePacket(r.val))],
                  queue |-> q]
           [] r.kind = "Incomplete" ->
                 [out   |-> MoreDataNeeded(IF r.needed # 0
                                           THEN r.needed
                                           ELSE 1024),
                  queue |-> q]
           [] r.kind = "Panic" ->
                 [out |-> Crashed, queue |-> q]
           [] OTHER ->
                 [out |-> InvalidData, queue |-> q]

\* IvfDemuxer::read_event on the window `data`: the value returned and the
\* event queue after the call.
read_event(data, q) ==
    IF q # <<>>
    THEN [out |-> [kind |-> "Ok", seek |-> 0, event |-> Head(q)],
          queue |-> Tail(q)]
    ELSE IF data = <<>>
    THEN [out |-> [kind |-> "Ok", seek |-> 0, event |-> EventEof],
          queue |-> q]
    ELSE LET r == ivf_frame(data) IN
         CASE r.kind = "Ok" ->
                 [out   |-> [kind  |-> "Ok",
                             seek  |-> Len(data) - Len(r.rest),
                             event |-> NewPacket(FramePacket(r.val))],
                  queue |-> q]
           [] r.kind = "Incomplete" ->
                 [out   |-> MoreDataNeeded(IF r.needed # 0
                                           THEN Len(data) + r.needed
                                           ELSE 1024),
                  queue |-> q]
           [] r.kind = "Panic" ->
                 [out |-> Crashed, queue |-> q]
           [] OTHER ->
                 [out |-> InvalidData, queue |-> q]

(***************************************************************************)
(* The muxer.                                                              *)
(***************************************************************************)
\* IvfMuxer::default (info is the variable minfo)
IvfMuxerDefault ==
    [version    |-> 0,
     width      |-> 0,
     height     |-> 0,
     frame_rate |-> <<30, 1>>,
     scale      |-> 0,
     codec      |-> CodecDefault,
     duration   |-> 0]

Abs(n) == IF n < 0 THEN -n ELSE n

RECURSIVE Gcd(_, _)
Gcd(a, b) == IF b = 0 THEN a ELSE Gcd(b, a % b)

\* num_rational::Ratio::new for a denominator other than zero (zero
\* panics): lowest terms, and the sign carried by the numerator.
Rational32_new(numer, denom) ==
    LET g == Gcd(Abs(numer), Abs(denom))
        n == numer \div g
        d == denom \div g
    IN  IF d < 0 THEN <<-n, -d>> ELSE <<n, d>>

as_u16(v) == v % 65536

\* `as i32` keeps every integer of this model.  `as u32` keeps the 32 bits
\* of its argument, and put_le writes those same bits for the integer
\* itself (two's complement for a negative one), so the cast is left to it.
as_u32(v) == v

as_i32(v) == v

\* Value, the argument of set_option.
I64(v) == [t |-> "I64", v |-> v, w |-> 0]

U64(v) == [t |-> "U64", v |-> v, w |-> 0]

Pair(n, d) == [t |-> "Pair", v |-> n, w |-> d]

Str == [t |-> "Str", v |-> 0, w |-> 0]

MuxOk == "Ok"

MuxInvalidData == "InvalidData"

MuxPanic == "Panic"

\* get_val_rational: the rational, or the failure
get_val_rational(val) ==
    CASE val.t \in {"I64", "U64"} ->
            [out |-> MuxOk, r |-> Rational32_new(as_i32(val.v), 1)]
      [] val.t = "Pair" ->
            IF as_i32(val.w) = 0
            THEN [out |-> MuxPanic, r |-> <<0, 0>>]
            ELSE [out |-> MuxOk,
                  r |-> Rational32_new(as_i32(val.v), as_i32(val.w))]
      [] OTHER -> [out |-> MuxInvalidData, r |-> <<0, 0>>]

get_val_int(val) ==
    IF val.t \in {"I64", "U64"}
    THEN [out |-> MuxOk, v |-> val.v]
    ELSE [out |-> MuxInvalidData, v |-> 0]

\* IvfMuxer::set_option: the result and the muxer after the call
set_option(m, key, val) ==
    LET r == get_val_rational(val)
        i == get_val_int(val)
    IN  CASE key = "frame_rate" ->
                [out |-> r.out,
                 mux |-> IF r.out = MuxOk
                         THEN [m EXCEPT !.frame_rate = r.r] ELSE m]
          [] key = "width" ->
                [out |-> i.out,
                 mux |-> IF i.out = MuxOk
                         THEN [m EXCEPT !.width = as_u16(i.v)] ELSE m]
          [] key = "height" ->
                [out |-> i.out,
                 mux |-> IF i.out = MuxOk
                         THEN [m EXCEPT !.height = as_u16(i.v)] ELSE m]
          [] key = "scale" ->
                [out |-> i.out,
                 mux |-> IF i.out = MuxOk
                         THEN [m EXCEPT !.scale = as_u32(i.v)] ELSE m]
          [] key = "duration" ->
                [out |-> i.out,
                 mux |-> IF i.out = MuxOk
                         THEN [m EXCEPT !.duration = as_u32(i.v)] ELSE m]
          [] OTHER -> [out |-> MuxInvalidData, mux |-> m]

\* the codec that configure derives from params.codec_id
codec_of_id(codec_id) ==
    IF codec_id = Some("av1") THEN "AV1"
    ELSE IF codec_id = Some("vp8") THEN "VP8"
    ELSE IF codec_id = Some("vp9") THEN "VP9"
    ELSE CodecDefault

\* IvfMuxer::configure: the result and the muxer after the call.  A
\* timebase with numerator zero makes Rational32::new panic.
configure(m, gi) ==
    IF gi # None /\ gi[1].streams # <<>>
    THEN LET st     == gi[1].streams[1]
             params == st.params
             tb     == gi[1].timebase
             video  == params.kind # None /\ params.kind[1].video
         IN  IF tb # None /\ as_i32(tb[1][1]) = 0
             THEN [out |-> MuxPanic, mux |-> m]
             ELSE [out |-> MuxOk,
                   mux |->
                     [version    |-> 0,
                      width      |-> IF video
                                     THEN as_u16(params.kind[1].width)
                                     ELSE m.width,
                      height     |-> IF video
                                     THEN as_u16(params.kind[1].height)
                                     ELSE m.height,
                      frame_rate |-> IF tb # None
                                     THEN Rational32_new(as_i32(tb[1][2]),
                                                         as_i32(tb[1][1]))
                                     ELSE <<30, 1>>,
                      scale      |-> 1,
                      codec      |-> codec_of_id(params.codec_id),
                      duration   |-> as_u32(unwrap_or_default(st.duration, 0))]]
    ELSE [out |-> MuxOk, mux |-> m]

\* codec_tag with the tag "AOM1" for AV1
codec_tag_aom1(codec) ==
    CASE codec = "VP8" -> VP80
      [] codec = "VP9" -> VP90
      [] codec = "AV1" -> <<65, 79, 77, 49>>

\* the FourCC that write_header writes for a codec
codec_tag(codec) ==
    CASE codec = "VP8" -> VP80
      [] codec = "VP9" -> VP90
      [] codec = "AV1" -> AV01

\* write_header leaving out the four unused bytes that end the header
write_header_short(m) ==
    DKIF
    \o put_u16l(m.version) \o put_u16l(32)
    \o codec_tag(m.codec)
    \o put_u16l(m.width) \o put_u16l(m.height)
    \o put_u32l(as_u32(m.frame_rate[1]))
    \o put_u32l(as_u32(m.frame_rate[2]))
    \o put_u32l(m.duration)

\* the 32 bytes that IvfMuxer::write_header writes
write_header(m) ==
    DKIF
    \o put_u16l(m.version) \o put_u16l(32)
    \o codec_tag(m.codec)
    \o put_u16l(m.width) \o put_u16l(m.height)
    \o put_u32l(as_u32(m.frame_rate[1]))
    \o put_u32l(as_u32(m.frame_rate[2]))
    \o put_u32l(m.duration)
    \o put_u32l(0)

\* write_packet with the position cut to its low 32 bits
write_packet_pos32(pkt) ==
    put_u32l(as_u32(Len(pkt.data)))
    \o put_u64l(<<unwrap_or_default(pkt.pos, <<0, 0>>)[1], 0>>)
    \o pkt.data

\* write_packet that builds the 12-byte prefix and writes the payload only
write_packet_payload_only(pkt) == pkt.data

\* the bytes that IvfMuxer::write_packet writes
write_packet(pkt) ==
    put_u32l(as_u32(Len(pkt.data)))
    \o put_u64l(unwrap_or_default(pkt.pos, <<0, 0>>))
    \o pkt.data

(***************************************************************************)
(* Inputs.                                                                 *)
(***************************************************************************)
\* Complete frame records in a demuxed stream, at most.
MaxFrames == 2

\* Calls made on one muxer, at most.
MaxCalls == 5

\* A file header as the IVF layout has it; the last four bytes are unused.
MkHeader(magic, version, length, fourcc, width, height, rate, scale, nframe) ==
    magic \o put_u16l(version) \o put_u16l(length) \o fourcc
    \o put_u16l(width) \o put_u16l(height)
    \o put_u32l(rate) \o put_u32l(scale) \o put_u32l(nframe)
    \o <<0, 0, 0, 0>>

\* A frame record: the declared size, the position, and the bytes present.
MkFrame(size, pos, data) == put_u32l(size) \o put_u64l(pos) \o data

ExamplePayload == <<222, 173, 190, 239>>

FrameSet ==
    {MkFrame(4, <<0, 0>>, ExamplePayload),
     MkFrame(0, <<1, 1>>, <<>>),
     MkFrame(1, <<16909060, 2147483647>>, <<7>>)}

\* Records that declare more payload than the stream holds.
ShortFrameSet ==
    {MkFrame(4, <<0, 0>>, <<222, 173>>),
     MkFrame(70000, <<5, 0>>, <<>>),
     MkFrame(268435457, <<9, 0>>, <<>>)}

RECURSIVE Bodies(_)
Bodies(n) ==
    IF n = 0 THEN {<<>>}
    ELSE LET B == Bodies(n - 1) IN B \cup {b \o f : b \in B, f \in FrameSet}

ExampleHeader == MkHeader(DKIF, 0, 32, VP80, 16, 16, 30, 1, 2)

GoodHeaders ==
    {MkHeader(DKIF, 0, 32, t, 16, 16, 30, 1, 2) : t \in {VP80, VP90, AV01}}
    \cup {MkHeader(DKIF, 1, 32, VP90, 640, 480, 60, 2, 0)}

\* Headers that declare a length of 36 and carry four more bytes.
LongHeaders ==
    {MkHeader(DKIF, 0, 36, t, 16, 16, 30, 1, 2) \o <<0, 0, 0, 0>> :
        t \in {VP80, AV01}}

BadMagics == {<<68, 75, 73, 71>>, <<100, 107, 105, 102>>, <<0, 75, 73, 70>>}

BadTags ==
    {<<65, 79, 77, 49>>, <<65, 86, 49, 0>>, <<86, 80, 56, 49>>,
     <<118, 112, 56, 48>>, <<0, 0, 0, 0>>}

BadHeaders ==
    {MkHeader(m, 0, 32, VP80, 16, 16, 30, 1, 2) : m \in BadMagics}
    \cup {MkHeader(DKIF, 0, 32, t, 16, 16, 30, 1, 2) : t \in BadTags}
    \cup {MkHeader(<<82, 73, 70, 70>>, 0, 32, <<0, 0, 0, 0>>, 16, 16, 30, 1, 2)}

\* The byte streams a driver may hold.
Streams ==
    {ExampleHeader \o b \o t :
        b \in Bodies(MaxFrames), t \in {<<>>} \cup ShortFrameSet}
    \cup {h \o f : h \in GoodHeaders \cup BadHeaders, f \in {<<>>} \cup FrameSet}
    \cup {h \o MkFrame(1, <<5, 0>>, <<7>>) : h \in LongHeaders}

\* The GlobalInfo a demuxer publishes for a stream that starts with `hb`.
PublishedInfo(hb) == read_headers(hb, None, EmptyInfo).info

\* A stream that says nothing about itself.
BareStream ==
    [id          |-> 0,
     index       |-> 0,
     params      |-> [extradata          |-> None,
                      bit_rate           |-> 0,
                      delay              |-> 0,
                      convergence_window |-> 0,
                      codec_id           |-> None,
                      kind               |-> None],
     start        |-> None,
     duration     |-> None,
     timebase     |-> <<1, 1000>>,
     user_private |-> None]

\* What set_global_info is given: the info, and the FourCC of the header
\* it was demuxed from when there is one.
InfoInputs ==
    {<<EmptyInfo, None>>}
    \cup {<<PublishedInfo(hb), Some(SubSeq(hb, 9, 12))>> : hb \in GoodHeaders}
    \cup {<<[PublishedInfo(ExampleHeader) EXCEPT !.timebase = Some(<<1001, 30000>>)],
            Some(VP80)>>,
          <<[EmptyInfo EXCEPT !.streams = <<BareStream>>], None>>,
          <<[EmptyInfo EXCEPT !.streams = <<BareStream>>,
                              !.timebase = Some(<<0, 1>>)], None>>}

OptionKeys == {"frame_rate", "width", "height", "scale", "duration", "bitrate"}

OptionValues == {I64(640), Pair(60, 2), Pair(30, 0), Str}

PacketInputs ==
    {Packet(ExamplePayload, None),
     Packet(<<>>, Some(<<1, 1>>)),
     Packet(<<7>>, Some(<<16909060, 2147483647>>))}

(***************************************************************************)
(* State.                                                                  *)
(***************************************************************************)
VARIABLES
    header,   \* IvfDemuxer.header
    queue,    \* IvfDemuxer.queue
    info,     \* the GlobalInfo of the demuxing driver
    src,      \* the byte stream the demuxing driver reads
    cursor,   \* bytes of src the driver has consumed
    avail,    \* bytes of src the driver has read into its buffer
    ret,      \* the demuxer call the driver made last, and its result
    evlog,    \* history: the demuxer's results up to the first that ends
              \* the run (anything but a parsed header or a NewPacket),
              \* kept while each call is handed all that is left of src
    mux,      \* IvfMuxer, but for info
    minfo,    \* IvfMuxer.info
    sink,     \* the bytes written to the muxer's Writer
    wlog,     \* history: the write calls made, each with the sink offset
    ncalls,   \* history: the number of calls made on the muxer
    asked,    \* history: the frame rate set_option was last asked for
    intag,    \* history: the FourCC of the header minfo was demuxed from
    cfgtag,   \* history: intag at the configure that set mux.codec
    cfginfo,  \* history: minfo at the configure that last set the fields
    optset,   \* history: the values set_option was given and took, by key
    mret      \* the muxer call made last, and its result

dvars == <<header, queue, info, src, cursor, avail, ret, evlog>>

mvars == <<mux, minfo, sink, wlog, ncalls, asked, intag, cfgtag, cfginfo,
          optset, mret>>

vars == <<header, queue, info, src, cursor, avail, ret, evlog,
          mux, minfo, sink, wlog, ncalls, asked, intag, cfgtag, cfginfo,
          optset, mret>>

NoCall == [call |-> "none", data |-> <<>>, more |-> FALSE,
           out |-> [kind |-> "None"]]

NoMuxCall == [call |-> "new", out |-> MuxOk]

\* No field of the header has been set through set_option.
NoOptions == [width |-> None, height |-> None, frame_rate |-> None,
              duration |-> None]

\* The window the driver hands to the demuxer: Buffered::data.
Window == SubSeq(src, cursor + 1, avail)

InitDemuxer ==
    /\ header = None
    /\ queue = <<>>
    /\ info = EmptyInfo
    /\ cursor = 0
    /\ avail = 0
    /\ ret = NoCall
    /\ evlog = Some(<<>>)

InitMuxer ==
    /\ mux = IvfMuxerDefault
    /\ minfo = None
    /\ sink = <<>>
    /\ wlog = <<>>
    /\ ncalls = 0
    /\ asked = None
    /\ intag = None
    /\ cfgtag = None
    /\ cfginfo = None
    /\ optset = NoOptions
    /\ mret = NoMuxCall

(***************************************************************************)
(* The demuxing driver: it reads the headers first and events after, and   *)
(* moves its cursor by the offset each call returns.  A panic ends it.     *)
(***************************************************************************)
Alive == ret.out.kind # "Panic"

\* A result after which the driver goes on to the next record.
Progress(out) ==
    /\ out.kind = "Ok"
    /\ ("event" \in DOMAIN out) => out.event.type = "NewPacket"

\* The history of results, with the call just made: given up once a
\* window holds less than what is left of the stream, and closed by the
\* first result that ends the run.
Logged(call, out) ==
    IF evlog = None \/ avail < Len(src) THEN None
    ELSE IF evlog[1] # <<>> /\ ~Progress(evlog[1][Len(evlog[1])].out)
    THEN evlog
    ELSE Some(Append(evlog[1], [call |-> call, out |-> out]))

\* AccReader::fill_buf: more of the stream becomes available.
Fill ==
    /\ Alive
    /\ \E n \in (avail + 1)..Len(src) : avail' = n
    /\ ret' = NoCall
    /\ UNCHANGED <<header, queue, info, src, cursor, evlog>>
    /\ UNCHANGED mvars

ReadHeaders ==
    /\ Alive
    /\ header = None
    /\ LET r == read_headers(Window, header, info) IN
        /\ header' = r.header
        /\ info' = r.info
        /\ cursor' = IF r.out.kind = "Ok" THEN cursor + r.out.seek ELSE cursor
        /\ ret' = [call |-> "read_headers", data |-> Window,
                   more |-> avail < Len(src), out |-> r.out]
        /\ evlog' = Logged("read_headers", r.out)
    /\ UNCHANGED <<queue, src, avail>>
    /\ UNCHANGED mvars

ReadEvent ==
    /\ Alive
    /\ header # None
    /\ LET r == read_event(Window, queue) IN
        /\ queue' = r.queue
        /\ cursor' = IF r.out.kind = "Ok" THEN cursor + r.out.seek ELSE cursor
        /\ ret' = [call |-> "read_event", data |-> Window,
                   more |-> avail < Len(src), out |-> r.out]
        /\ evlog' = Logged("read_event", r.out)
    /\ UNCHANGED <<header, info, src, avail>>
    /\ UNCHANGED mvars

\* Format detection: the driver scores what it has buffered of a stream
\* it has not begun to read.
Probe ==
    /\ Alive
    /\ header = None
    /\ cursor = 0
    /\ ret' = [call |-> "probe", data |-> Window,
               more |-> avail < Len(src), out |-> probe(Window)]
    /\ UNCHANGED <<header, queue, info, src, cursor, avail, evlog>>
    /\ UNCHANGED mvars

InitDemux == InitDemuxer /\ InitMuxer /\ src \in Streams

NextDemux == Fill \/ Probe \/ ReadHeaders \/ ReadEvent

SpecDemux == InitDemux /\ [][NextDemux]_vars

(***************************************************************************)
(* The muxing driver: any call in any order, until write_trailer.          *)
(***************************************************************************)
\* A panic ends the muxing driver, and so does the bound on its calls.
MuxAlive == mret.out # MuxPanic /\ ncalls < MaxCalls

Count(op) == Cardinality({i \in DOMAIN wlog : wlog[i].op = op})

Writing == MuxAlive /\ Count("write_trailer") = 0

SetGlobalInfo ==
    /\ MuxAlive
    /\ \E i \in InfoInputs :
        /\ minfo' = Some(i[1])
        /\ intag' = i[2]
    /\ mret' = [call |-> "set_global_info", out |-> MuxOk]
    /\ ncalls' = ncalls + 1
    /\ UNCHANGED <<mux, sink, wlog, asked, cfgtag, cfginfo, optset>>
    /\ UNCHANGED dvars

Configure ==
    /\ MuxAlive
    /\ LET r == configure(mux, minfo)
           changes == minfo # None /\ minfo[1].streams # <<>>
       IN  /\ mux' = r.mux
           /\ mret' = [call |-> "configure", out |-> r.out]
           /\ cfgtag' = IF changes /\ r.out = MuxOk THEN intag ELSE cfgtag
           /\ asked' = IF changes /\ r.out = MuxOk THEN None ELSE asked
           /\ cfginfo' = IF changes /\ r.out = MuxOk THEN minfo ELSE cfginfo
    /\ ncalls' = ncalls + 1
    /\ UNCHANGED <<minfo, sink, wlog, intag, optset>>
    /\ UNCHANGED dvars

SetOption ==
    /\ MuxAlive
    /\ \E key \in OptionKeys, val \in OptionValues :
        LET r == set_option(mux, key, val) IN
        /\ mux' = r.mux
        /\ mret' = [call |-> "set_option", out |-> r.out]
        /\ asked' = IF key = "frame_rate" /\ r.out = MuxOk
                    THEN Some(IF val.t = "Pair" THEN <<val.v, val.w>>
                                                ELSE <<val.v, 1>>)
                    ELSE asked
        /\ optset' = IF key \in DOMAIN optset /\ r.out = MuxOk
                     THEN [optset EXCEPT ![key] =
                             Some(IF key # "frame_rate" THEN val.v
                                  ELSE IF val.t = "Pair"
                                  THEN <<val.v, val.w>>
                                  ELSE <<val.v, 1>>)]
                     ELSE optset
    /\ ncalls' = ncalls + 1
    /\ UNCHANGED <<minfo, sink, wlog, intag, cfgtag, cfginfo>>
    /\ UNCHANGED dvars

WriteHeader ==
    /\ Writing
    /\ sink' = sink \o write_header(mux)
    /\ wlog' = Append(wlog, [op |-> "write_header", at |-> Len(sink),
                             pkt |-> None])
    /\ mret' = [call |-> "write_header", out |-> MuxOk]
    /\ ncalls' = ncalls + 1
    /\ UNCHANGED <<mux, minfo, asked, intag, cfgtag, cfginfo, optset>>
    /\ UNCHANGED dvars

WritePacket ==
    /\ Writing
    /\ \E pkt \in PacketInputs :
        /\ sink' = sink \o write_packet(pkt)
        /\ wlog' = Append(wlog, [op |-> "write_packet", at |-> Len(sink),
                                 pkt |-> Some(pkt)])
    /\ mret' = [call |-> "write_packet", out |-> MuxOk]
    /\ ncalls' = ncalls + 1
    /\ UNCHANGED <<mux, minfo, asked, intag, cfgtag, cfginfo, optset>>
    /\ UNCHANGED dvars

\* write_trailer flushes the Writer and writes nothing itself.
WriteTrailer ==
    /\ Writing
    /\ sink' = sink
    /\ wlog' = Append(wlog, [op |-> "write_trailer", at |-> Len(sink),
                             pkt |-> None])
    /\ mret' = [call |-> "write_trailer", out |-> MuxOk]
    /\ ncalls' = ncalls + 1
    /\ UNCHANGED <<mux, minfo, asked, intag, cfgtag, cfginfo, optset>>
    /\ UNCHANGED dvars

InitMux == InitDemuxer /\ InitMuxer /\ src = <<>>

NextMux ==
    \/ SetGlobalInfo
    \/ Configure
    \/ SetOption
    \/ WriteHeader
    \/ WritePacket
    \/ WriteTrailer

SpecMux == InitMux /\ [][NextMux]_vars

(***************************************************************************)
(* Properties of the muxer, under SpecMux.                                 *)
(***************************************************************************)
FourCCs == {VP80, VP90, AV01}

\* The sink offset at which the i-th write call stopped writing.
WriteEnd(i) == IF i < Len(wlog) THEN wlog[i + 1].at ELSE Len(sink)

LastWrite == wlog[Len(wlog)]

\* C1: Frame round-trip.  The bytes that write_packet wrote for a packet,
\* parsed by ivf_frame, give back the payload length as size, the packet's
\* position (0 when it has none) and the payload itself, and the parse
\* consumes exactly the bytes written, whether or not more bytes follow.
C1_FrameRoundTrip ==
    \A i \in DOMAIN wlog :
        wlog[i].op = "write_packet" =>
            LET pkt     == wlog[i].pkt[1]
                written == SubSeq(sink, wlog[i].at + 1, WriteEnd(i))
                alone   == ivf_frame(written)
                inplace == ivf_frame(Drop(sink, wlog[i].at))
            IN  /\ alone.kind = "Ok"
                /\ alone.rest = <<>>
                /\ alone.val.size = Len(pkt.data)
                /\ alone.val.pos = unwrap_or_default(pkt.pos, <<0, 0>>)
                /\ alone.val.data = pkt.data
                /\ inplace.kind = "Ok"
                /\ inplace.val = alone.val
                /\ inplace.rest = Drop(sink, WriteEnd(i))

\* C1 witness: a packet with a payload and a position above 32 bits has
\* been written, and another write came after it.
C1_Witness ==
    \E i \in DOMAIN wlog :
        /\ wlog[i].op = "write_packet"
        /\ wlog[i].pkt[1].data = <<7>>
        /\ wlog[i].pkt[1].pos = Some(<<16909060, 2147483647>>)
        /\ i < Len(wlog)
        /\ WriteEnd(i) < Len(sink)

\* C2: Header round-trip.  Right after write_header, parsing the 32 bytes it
\* wrote gives back the version, codec, width, height and frame count the
\* muxer was set up with, and the rate and scale of the frame rate it was
\* asked for through set_option; the unused bytes are zero.
C2_HeaderRoundTrip ==
    mret.call = "write_header" =>
        LET hb == SubSeq(sink, LastWrite.at + 1, LastWrite.at + 32)
            r  == ivf_header(hb)
        IN  /\ r.kind = "Ok"
            /\ r.rest = <<>>
            /\ r.val.version = mux.version
            /\ r.val.codec = mux.codec
            /\ r.val.width = mux.width
            /\ r.val.height = mux.height
            /\ r.val.nframe = mux.duration
            /\ asked # None =>
                  /\ r.val.rate = asked[1][1]
                  /\ r.val.scale = asked[1][2]
            /\ SubSeq(hb, 29, 32) = <<0, 0, 0, 0>>

RECURSIVE LaidOut(_, _, _)
LaidOut(bytes, pkts, off) ==
    IF pkts = <<>> THEN Len(bytes) = off
    ELSE LET p == Head(pkts)
             n == Len(p.data)
         IN  /\ Len(bytes) >= off + 12 + n
             /\ get_u32l(SubSeq(bytes, off + 1, off + 4)) = n
             /\ get_u64l(SubSeq(bytes, off + 5, off + 12))
                    = unwrap_or_default(p.pos, <<0, 0>>)
             /\ SubSeq(bytes, off + 13, off + 12 + n) = p.data
             /\ LaidOut(bytes, Tail(pkts), off + 12 + n)

\* write_header, then write_packet calls only, then write_trailer
HeaderPacketsTrailer ==
    /\ Len(wlog) >= 2
    /\ wlog[1].op = "write_header"
    /\ wlog[Len(wlog)].op = "write_trailer"
    /\ \A i \in 2..(Len(wlog) - 1) : wlog[i].op = "write_packet"

IsMoreDataNeeded(out) == out.kind = "Err" /\ out.error = "MoreDataNeeded"

IsEof(out) == out.kind = "Ok" /\ out.event.type = "Eof"

IsNewPacket(out) == out.kind = "Ok" /\ out.event.type = "NewPacket"

\* C3: Header partial input.  read_headers on the first k < 32 bytes of a
\* valid header answers that 32 - k more bytes are needed; it does not
\* answer InvalidData and does not panic.
C3_HeaderPartial ==
    (/\ ret.call = "read_headers"
     /\ Len(ret.data) < 32
     /\ \E h \in GoodHeaders : ret.data = Take(h, Len(ret.data)))
    => /\ IsMoreDataNeeded(ret.out)
       /\ ret.out.size = 32 - Len(ret.data)

\* C4: Frame partial prefix.  read_event on a window of 1 to 11 bytes
\* answers that more data is needed, and from 4 bytes on, where the size s
\* can be read, the window length it asks for is 12 + s.
C4_FramePartial ==
    (/\ ret.call = "read_event"
     /\ Len(ret.data) > 0
     /\ Len(ret.data) < 12)
    => /\ IsMoreDataNeeded(ret.out)
       /\ Len(ret.data) >= 4 =>
             ret.out.size - Len(ret.data)
                 = 12 + get_u32l(Take(ret.data, 4)) - Len(ret.data)

\* The size field of a window that holds the 12-byte prefix.
DeclaredSize == get_u32l(Take(ret.data, 4))

\* C5: Oversized-size guard.  On a window of k >= 12 bytes whose size field
\* s exceeds the k - 12 bytes after the prefix, ivf_frame is Incomplete by
\* s - (k - 12), and read_event answers MoreDataNeeded(12 + s) without
\* panicking, without a packet and without moving the cursor.
C5_OversizedGuard ==
    (/\ ret.call = "read_event"
     /\ Len(ret.data) >= 12
     /\ DeclaredSize > Len(ret.data) - 12)
    => /\ ivf_frame(ret.data)
            = Incomplete(DeclaredSize - (Len(ret.data) - 12))
       /\ ret.out = MoreDataNeeded(12 + DeclaredSize)
       /\ ret.data = Window

\* C5 witness: 14 bytes of a record that declares 4 bytes of payload.
C5_Witness ==
    /\ ret.call = "read_event"
    /\ Len(ret.data) = 14
    /\ DeclaredSize = 4
    /\ IsMoreDataNeeded(ret.out)

\* C6: Corruption detection.  On a window of 32 bytes or more that does not
\* start with "DKIF", or whose bytes 8..12 are not one of the three tags,
\* read_headers answers InvalidData, stores no header and adds no stream.
C6_CorruptionDetected ==
    (/\ ret.call = "read_headers"
     /\ Len(ret.data) >= 32
     /\ \/ Take(ret.data, 4) # DKIF
        \/ SubSeq(ret.data, 9, 12) \notin FourCCs)
    => /\ ret.out = InvalidData
       /\ header = None
       /\ info.streams = <<>>

\* C6 witness: a full header with the right magic and the tag "AOM1".
C6_Witness ==
    /\ ret.call = "read_headers"
    /\ Len(ret.data) >= 32
    /\ Take(ret.data, 4) = DKIF
    /\ SubSeq(ret.data, 9, 12) = <<65, 79, 77, 49>>
    /\ ret.out = InvalidData

\* C8: End of stream.  read_event answers Eof on an empty window after
\* which no byte will arrive, and answers Eof in no other case: not on a
\* window that is short or empty while more bytes are to come.
C8_EofNotConflated ==
    ret.call = "read_event" =>
        /\ (ret.data = <<>> /\ ~ret.more) => IsEof(ret.out)
        /\ IsEof(ret.out) => (ret.data = <<>> /\ ~ret.more)

\* C9: Header cursor offset.  When read_headers succeeds on a window that
\* holds the whole declared header, the offset it returns is the length
\* declared in bytes 6..8, and the cursor stands there.
C9_HeaderOffset ==
    (/\ ret.call = "read_headers"
     /\ ret.out.kind = "Ok"
     /\ Len(ret.data) >= get_u16l(SubSeq(ret.data, 7, 8)))
    => /\ ret.out.seek = get_u16l(SubSeq(ret.data, 7, 8))
       /\ cursor = get_u16l(SubSeq(ret.data, 7, 8))

(***************************************************************************)
(* Well-formed streams: a 32-byte header and complete records after it.    *)
(***************************************************************************)
\* The records FrameSet encodes, as offset and payload.
Records ==
    {[pos |-> <<0, 0>>, data |-> ExamplePayload],
     [pos |-> <<1, 1>>, data |-> <<>>],
     [pos |-> <<16909060, 2147483647>>, data |-> <<7>>]}

RecordSeqs == UNION {[1..k -> Records] : k \in 0..MaxFrames}

RECURSIVE Encode(_)
Encode(recs) ==
    IF recs = <<>> THEN <<>>
    ELSE MkFrame(Len(Head(recs).data), Head(recs).pos, Head(recs).data)
         \o Encode(Tail(recs))

\* Every call so far was handed all that was left of the stream.
WholeWindows == evlog # None

\* The results of the calls so far, when they are on record.
Results == IF evlog = None THEN <<>> ELSE evlog[1]

\* What the i-th call of a run over header and recs is to return.
Expected(recs, i) ==
    IF i = 1 THEN [kind |-> "Ok", seek |-> 32]
    ELSE IF i - 1 <= Len(recs)
    THEN [kind  |-> "Ok",
          seek  |-> 12 + Len(recs[i - 1].data),
          event |-> NewPacket(Packet(recs[i - 1].data,
                                     Some(recs[i - 1].pos)))]
    ELSE [kind |-> "Ok", seek |-> 0, event |-> EventEof]

\* C11: over a stream of a 32-byte header and n complete records, with the
\* driver handing all that is left of the stream to every call, read_headers
\* and then read_event return the header, then n NewPackets, the i-th with
\* the payload and position of the i-th record and an offset of 12 plus its
\* size, then Eof: no error and no MoreDataNeeded among them.
C11_DemuxSequence ==
    (WholeWindows /\ Results # <<>>) =>
        \A h \in GoodHeaders : \A recs \in RecordSeqs :
            src = h \o Encode(recs) =>
                /\ Len(Results) <= Len(recs) + 2
                /\ \A i \in DOMAIN Results :
                      /\ Results[i].call = IF i = 1 THEN "read_headers"
                                           ELSE "read_event"
                      /\ Results[i].out = Expected(recs, i)
                /\ cursor = 32 + Len(Encode(SubSeq(recs, 1,
                                        Min(Len(Results) - 1, Len(recs)))))

\* A run over the example header and two records has come to its Eof.
C11_Witness ==
    /\ WholeWindows
    /\ Len(Results) = 4
    /\ IsEof(Results[4].out)
    /\ IsNewPacket(Results[2].out) /\ IsNewPacket(Results[3].out)
    /\ Results[2].out.seek = 16
    /\ \E recs \in RecordSeqs :
          Len(recs) = 2 /\ src = ExampleHeader \o Encode(recs)

(***************************************************************************)
(* The remuxing driver of tests/remuxer.rs: demux_mux reads the whole      *)
(* input, hands the published info to the muxer, and writes every packet   *)
(* the demuxer returns; an error or a panic on either side ends it.        *)
(***************************************************************************)
\* File::open and AccReader: the whole input is there to be read.
RemuxOpen ==
    /\ avail = 0
    /\ cursor = 0
    /\ Fill
    /\ avail' = Len(src)

\* demuxer.read_headers().unwrap()
RemuxReadHeaders ==
    /\ avail = Len(src)
    /\ ret = NoCall
    /\ ReadHeaders

\* muxer.set_global_info(demuxer.info.clone()).unwrap()
RemuxSetGlobalInfo ==
    /\ header # None
    /\ mret = NoMuxCall
    /\ minfo' = Some(info)
    /\ intag' = Some(SubSeq(src, 9, 12))
    /\ mret' = [call |-> "set_global_info", out |-> MuxOk]
    /\ ncalls' = ncalls + 1
    /\ UNCHANGED <<mux, sink, wlog, asked, cfgtag, cfginfo, optset>>
    /\ UNCHANGED dvars

\* muxer.configure().unwrap()
RemuxConfigure ==
    /\ header # None
    /\ mret.call = "set_global_info"
    /\ Configure

\* muxer.write_header().unwrap()
RemuxWriteHeader ==
    /\ header # None
    /\ mret = [call |-> "configure", out |-> MuxOk]
    /\ WriteHeader

\* The packets demuxed and not yet written.
Pending ==
    Cardinality({i \in DOMAIN evlog[1] :
                    /\ evlog[1][i].call = "read_event"
                    /\ IsNewPacket(evlog[1][i].out)})
    - Count("write_packet")

\* demuxer.read_event(), once the packet before it is written
RemuxReadEvent ==
    /\ mret.call \in {"write_header", "write_packet"}
    /\ mret.out = MuxOk
    /\ Pending = 0
    /\ Progress(ret.out)
    /\ ReadEvent

\* Event::NewPacket(packet) => muxer.write_packet(Arc::new(packet)).unwrap()
RemuxWritePacket ==
    /\ ret.call = "read_event"
    /\ IsNewPacket(ret.out)
    /\ Pending = 1
    /\ sink' = sink \o write_packet(ret.out.event.pkt)
    /\ wlog' = Append(wlog, [op |-> "write_packet", at |-> Len(sink),
                             pkt |-> Some(ret.out.event.pkt)])
    /\ mret' = [call |-> "write_packet", out |-> MuxOk]
    /\ ncalls' = ncalls + 1
    /\ UNCHANGED <<mux, minfo, asked, intag, cfgtag, cfginfo, optset>>
    /\ UNCHANGED dvars

\* Event::Eof => muxer.write_trailer().unwrap(), and the loop ends
RemuxWriteTrailer ==
    /\ ret.call = "read_event"
    /\ IsEof(ret.out)
    /\ mret.call \in {"write_header", "write_packet"}
    /\ sink' = sink
    /\ wlog' = Append(wlog, [op |-> "write_trailer", at |-> Len(sink),
                             pkt |-> None])
    /\ mret' = [call |-> "write_trailer", out |-> MuxOk]
    /\ ncalls' = ncalls + 1
    /\ UNCHANGED <<mux, minfo, asked, intag, cfgtag, cfginfo, optset>>
    /\ UNCHANGED dvars

InitRemux == InitDemuxer /\ InitMuxer /\ src \in Streams

NextRemux ==
    \/ RemuxOpen
    \/ RemuxReadHeaders
    \/ RemuxSetGlobalInfo
    \/ RemuxConfigure
    \/ RemuxWriteHeader
    \/ RemuxReadEvent
    \/ RemuxWritePacket
    \/ RemuxWriteTrailer

SpecRemux == InitRemux /\ [][NextRemux]_vars

\* check_mux: what a demuxer returns over bytes, read whole from the start,
\* up to the first result that is not a packet.
RECURSIVE EventsFrom(_, _)
EventsFrom(bytes, q) ==
    LET r == read_event(bytes, q)
    IN  IF r.out.kind = "Ok" /\ r.out.event.type = "NewPacket"
        THEN <<r.out>> \o EventsFrom(Drop(bytes, r.out.seek), r.queue)
        ELSE <<r.out>>

Events(bytes) ==
    LET h == read_headers(bytes, None, EmptyInfo)
    IN  IF h.out.kind = "Ok"
        THEN <<h.out>> \o EventsFrom(Drop(bytes, h.out.seek), <<>>)
        ELSE <<h.out>>

\* C12: once demux_mux has written its trailer, a demuxer over the output
\* returns what a demuxer over the input returns: as many packets, in the
\* same order, with equal payload and position, and Eof at the same step.
C12_RemuxEquivalence ==
    mret.call = "write_trailer" =>
        /\ Events(sink) = Events(src)
        /\ IsEof(Events(sink)[Len(Events(sink))])
        /\ Len(Events(sink)) = Count("write_packet") + 2

\* A stream of two different records has been remuxed.
C12_Witness ==
    /\ mret.call = "write_trailer"
    /\ Count("write_packet") = 2
    /\ wlog[2].pkt # wlog[3].pkt
    /\ Len(Events(src)) = 4

\* C13: probe returns a score for every input and fails on none: 32 when
\* the input has at least 33 bytes, begins with DKIF and carries one of the
\* three FourCCs, and 0 otherwise, so also for an input shorter than 33
\* bytes; it leaves the demuxer and the driver's cursor as they were.
C13_ProbeTotal ==
    ret.call = "probe" =>
        /\ ret.out.kind = "Ok"
        /\ ret.out.score = IF /\ Len(ret.data) >= 33
                              /\ SubSeq(ret.data, 1, 4) = DKIF
                              /\ SubSeq(ret.data, 9, 12) \in FourCCs
                           THEN 32 ELSE 0
        /\ header = None /\ cursor = 0 /\ queue = <<>> /\ info = EmptyInfo

(***************************************************************************)
(* What read_headers publishes, against the bytes of the header it read.   *)
(***************************************************************************)
HeaderParsed == ret.call = "read_headers" /\ ret.out.kind = "Ok"

Field16(at) == get_u16l(SubSeq(ret.data, at + 1, at + 2))

Field32(at) == get_u32l(SubSeq(ret.data, at + 1, at + 4))

TagName(t) ==
    CASE t = VP80 -> "vp8"
      [] t = VP90 -> "vp9"
      [] t = AV01 -> "av1"

\* One stream, with the header's picture size, codec and frame count,
\* whatever follows the header.
PublishedSize ==
    /\ Len(info.streams) = 1
    /\ info.streams[1].params.kind =
          Some([video |-> TRUE, width |-> Field16(12),
                height |-> Field16(14), format |-> None])
    /\ info.streams[1].params.codec_id =
          Some(TagName(SubSeq(ret.data, 9, 12)))
    /\ info.streams[1].duration = Some(Field32(24))
    /\ info = PublishedInfo(Take(ret.data, 32))

\* The frame rate rate/scale, published as the time base scale/rate that
\* IvfMuxer::configure inverts into its frame rate.
PublishedRate ==
    /\ info.streams[1].timebase[1] * Field32(16)
          = info.streams[1].timebase[2] * Field32(20)
    /\ info.timebase # None =>
          info.timebase[1][1] * Field32(16)
              = info.timebase[1][2] * Field32(20)

\* C14: every successful read_headers publishes exactly one stream, whose
\* width, height, codec identifier, frame rate (rate over scale) and frame
\* count are the little-endian values of the header, whatever bytes follow.
C14_StreamMetadata == HeaderParsed => PublishedSize /\ PublishedRate

\* C15: a header whose frame count is 0 is published with the duration
\* absent, the count being unknown; a count n other than 0 is published
\* as n.
C15_ZeroFramesUnknown ==
    HeaderParsed =>
        info.streams[1].duration = IF Field32(24) = 0 THEN None
                                   ELSE Some(Field32(24))

\* The bound on a frame's size that the comment over ivf_frame names:
\* 256 * 1024 * 1024.
MaxFrameSize == 268435456

\* C16: a record whose 12-byte prefix declares a payload larger than
\* 256 MiB is refused as InvalidData; it is not answered with a request
\* for more bytes.
C16_FrameSizeBounded ==
    (/\ ret.call = "read_event"
     /\ Len(ret.data) >= 12
     /\ DeclaredSize > MaxFrameSize)
    => ret.out = InvalidData

(***************************************************************************)
(* The header written, against the options set and the metadata that the   *)
(* last configure to change the muxer was called with.                     *)
(***************************************************************************)
WrittenHeader ==
    ivf_header(SubSeq(sink, LastWrite.at + 1, LastWrite.at + 32)).val

\* A field set through set_option is the field written.
OptionsWritten ==
    /\ optset.width # None => WrittenHeader.width = optset.width[1]
    /\ optset.height # None => WrittenHeader.height = optset.height[1]
    /\ optset.duration # None => WrittenHeader.nframe = optset.duration[1]
    /\ optset.frame_rate # None =>
          WrittenHeader.rate * optset.frame_rate[1][2]
              = WrittenHeader.scale * optset.frame_rate[1][1]

MetaVideo == cfginfo # None /\ cfginfo[1].streams[1].params.kind # None

MetaWidth == IF MetaVideo THEN cfginfo[1].streams[1].params.kind[1].width
             ELSE 0

MetaHeight == IF MetaVideo THEN cfginfo[1].streams[1].params.kind[1].height
              ELSE 0

MetaDuration ==
    IF cfginfo # None /\ cfginfo[1].streams[1].duration # None
    THEN cfginfo[1].streams[1].duration[1] ELSE 0

\* The frame rate of the metadata, as <<numerator, denominator>>: the
\* inverse of its time base, or 30/1.
MetaRate ==
    IF cfginfo # None /\ cfginfo[1].timebase # None
    THEN <<cfginfo[1].timebase[1][2], cfginfo[1].timebase[1][1]>>
    ELSE <<30, 1>>

MetaCodec ==
    IF cfginfo = None THEN "VP8"
    ELSE LET id == cfginfo[1].streams[1].params.codec_id
         IN  CASE id = Some("vp9") -> "VP9"
               [] id = Some("av1") -> "AV1"
               [] OTHER            -> "VP8"

\* A field not set through set_option is the metadata's, or the default.
MetadataWritten ==
    /\ optset.width = None => WrittenHeader.width = MetaWidth
    /\ optset.height = None => WrittenHeader.height = MetaHeight
    /\ optset.duration = None => WrittenHeader.nframe = MetaDuration
    /\ optset.frame_rate = None =>
          WrittenHeader.rate * MetaRate[2] = WrittenHeader.scale * MetaRate[1]
    /\ WrittenHeader.codec = MetaCodec

\* C17: whatever calls of set_global_info, configure and set_option come
\* before write_header, and in whatever order, the header written has the
\* width, height, frame rate and duration that set_option was given, and
\* in its other fields the stream metadata configure read, or the
\* defaults (frame rate 30/1, codec VP8) where there was none.
C17_OptionsOverride ==
    mret.call = "write_header" => OptionsWritten /\ MetadataWritten

====
